---- MODULE Spec2Model ----
(***************************************************************************)
(* The playback controller of reyvr: Player (the Core), its Controller     *)
(* handle, the two ring channels between them and the frontend's response  *)
(* loop.  Sources: crates/backend/src/player.rs, crates/ui/src/lib.rs.     *)
(*                                                                         *)
(* Track indices are 0-based as in the code; the track list `tracks` is a  *)
(* TLA+ sequence, so the track at index i is tracks[i + 1].  A track is    *)
(* represented by its uri, a positive number.  Volumes are in percent      *)
(* (the code's 0.5 is 50).                                                 *)
(***************************************************************************)
EXTENDS Integers, Sequences, FiniteSets

\* ---------------------------------------------------------------- bounds
\* Commands the frontend may enqueue in one run.
MaxSent == 3
\* Capacity of the command channel in the model (128 in Player::new).
CmdCapacity == 2
\* Capacity of the response channel in the model (128 in Player::new).
ResCapacity == 2
\* Tracks of the long folder.
MaxTracks == 2
\* Distinct volumes the slider sends.
NumVolumes == 1
\* Polls in one run in which the backend has news: an unsolicited event of
\* its monitor, a position that moved on, or both.
MaxNews == 1
\* Distinct playlists the frontend adds to the saved playlists.
NumSaved == 2

\* ------------------------------------------------------------- constants
\* Player::new: volume: 0.5
DefaultVolume == 50

VARIABLES
    tracks,         \* Player.playlist: the live playlist's tracks (uris)
    current_index,  \* Player.current_index
    loaded,         \* Player.loaded
    playing,        \* Player.playing
    volume,         \* Player.volume
    position,       \* Player.position
    crashed,        \* Player::run has panicked: the Core task is gone
    cmdq,           \* command channel: sequence of [op, arg, n]
    resq,           \* response channel: sequence of [type, arg]
    bUri,           \* backend: uri of the loaded track, 0 when none
    bVolume,        \* backend: volume in effect, 0 after a load reset it
    bNews,          \* backend: polls so far in which it had news
    sent,           \* number of commands enqueued so far (numbers them)
    rcvd,           \* number of the command the Core received last
    taken,          \* commands the Core has received so far
    evicted,        \* commands lost to overwrite so far
    userVol,        \* volume of the last Volume command carried out, 0 when none
    last,           \* what the Core's last command did (pre-state, calls, responses)
    saved_playlists, \* Player.saved_playlists: sequence of saved playlists
    disk,           \* the Saved-Playlist Store's persisted collection
    closed,         \* every Controller clone has been dropped
    closedPolls,    \* loop iterations the Core ran on the closed, empty channel (up to 2)
    budget,         \* commands the frontend enqueues in this run
    silent,         \* Controller operations that returned without enqueuing
    ledger,         \* saved playlists as added, and as last written: [adds, wrote, written]
    task,           \* the Core task inside a command: [stepping, script, held, awaiting]
    heard,          \* the backend as the loop's tail met it: [on, news, ev, at, uri]
    toggle          \* progress of a Play, Pause, Play sequence: [stage, calls, plays]

vars == <<tracks, current_index, loaded, playing, volume, position, crashed,
          cmdq, resq, bUri, bVolume, bNews, sent, rcvd, taken, evicted, userVol, last,
          saved_playlists, disk, closed, closedPolls, budget, silent, ledger,
          task, heard, toggle>>

core == <<tracks, current_index, loaded, playing, volume, position, crashed>>

\* Player.saved_playlists and the store behind it.
store == <<saved_playlists, disk, ledger>>

\* The run's surroundings: Controller lifetime, command budget.
env == <<closed, closedPolls, budget>>

\* Everything but the Core task's place inside a command.
others == <<core, cmdq, resq, bUri, bVolume, bNews, sent, rcvd, taken, evicted,
            userVol, last, store, env, silent, toggle, heard>>

\* ------------------------------------------------------------ vocabulary
Volumes == {10 * k : k \in 1..NumVolumes}
Paths == {1, 2}
PlayIds == {0, MaxTracks - 1, MaxTracks}

\* The times a Command::Seek can ask for.
SeekTimes == {0, 1}

\* Folders the file dialog of Command::LoadFolder can return; folder 3 holds
\* no track.
Folders == Paths \cup {3}

\* Playlist::from_dir: the tracks found in a folder.  Folder 1 is the long
\* folder, folder 2 holds a single track, folder 3 none.
from_dir(path) ==
    IF path = 1 THEN [i \in 1..MaxTracks |-> i]
    ELSE IF path = 2 THEN <<MaxTracks + 1>>
    ELSE <<>>

\* The playlists the frontend adds to the saved playlists, by name.
SavedNames == 1..NumSaved

\* The store's file format: the playlists' names as the digits of a number,
\* first playlist lowest; 0 is the empty collection and the missing file.
RECURSIVE Encode(_)
Encode(sp) ==
    IF sp = <<>> THEN 0 ELSE Head(sp) + (NumSaved + 1) * Encode(Tail(sp))

RECURSIVE Decode(_)
Decode(n) ==
    IF n = 0 THEN <<>> ELSE <<n % (NumSaved + 1)>> \o Decode(n \div (NumSaved + 1))

\* SavedPlaylists::load(): the persisted collection, the default (empty) one
\* when nothing is persisted.
StoreLoad(dk) == Decode(dk)

\* SavedPlaylists::save_playlists(sp): what is persisted after it returned Ok.
StoreSave(sp) == Encode(sp)

Cmd(op, arg) == [op |-> op, arg |-> arg]
Res(type, arg) == [type |-> type, arg |-> arg]

\* Events backend.monitor() reports; NoEvent stands for None.
NoEvent == Res("None", 0)
MonitorEvents == {Res("Eos", 0), Res("StreamStart", 0)}

\* gstreamer::State values carried by StateChanged
Paused == 1
Playing == 2

\* The backend method that fails while a command is handled ("none": all succeed).
Fails == {"none", "stop", "load", "play", "pause", "set_volume", "seek"}

\* The failures an arm calling the backend methods `fs` can meet.
FailsOf(fs) == Fails \cap ({"none"} \cup fs)

\* A backend call as the backend saw it.
BCall(f, a, ok) == [f |-> f, a |-> a, ok |-> ok]

\* ---------------------------------------------------------- ring channel
\* RingSender::send on a channel of capacity cap: never blocks; on a full
\* channel the oldest pending message is overwritten.
\* Mutant: a full channel refuses the new message instead of overwriting.
RingSendDropNewest(q, m, cap) ==
    IF Len(q) < cap THEN Append(q, m) ELSE q

RingSend(q, m, cap) ==
    IF Len(q) < cap THEN Append(q, m) ELSE Append(Tail(q), m)

\* Mutant: a bounded blocking channel, send waits while the channel is full.
SendBlocksWhenFull(q, cap) == Len(q) >= cap

\* Does RingSender::send have to wait for room in the channel: never.
SendBlocks(q, cap) == FALSE

RECURSIVE SendAll(_, _, _)
SendAll(q, ms, cap) ==
    IF ms = <<>> THEN q ELSE SendAll(RingSend(q, Head(ms), cap), Tail(ms), cap)

\* ------------------------------------------------------------------ Init
NoLast == [op |-> "none", arg |-> 0, index |-> 0, loaded |-> FALSE,
           playing |-> FALSE, len |-> 0, calls |-> <<>>, out |-> <<>>,
           panic |-> FALSE]

NoLedger == [adds |-> <<>>, wrote |-> <<>>, written |-> FALSE]

\* The Core task between two commands.  stepping: the run follows the task
\* through the suspension points of each command; script: the steps of the
\* command in progress still to come; held: the task holds the playlist
\* guard; awaiting: the task is suspended in an awaited call.
Idle(stepping) ==
    [stepping |-> stepping, script |-> <<>>, held |-> FALSE, awaiting |-> FALSE]

\* What the loop's tail has met so far.  on (hearing): the run keeps the
\* monitor's results, has one more poll with news, and the backend's position
\* may fall back to 0 as on a track change; news: polls with news in this
\* run; ev: what monitor() returned in the last poll; at: the commands taken
\* before that poll.
Hearing(on) ==
    [on |-> on, news |-> IF on THEN MaxNews + 1 ELSE MaxNews,
     ev |-> NoEvent, at |-> 0, uri |-> 0]

NoToggle == [stage |-> 0, calls |-> <<>>, plays |-> <<>>]

\* Player::new with Playlist::default(); the frontend will enqueue b commands.
Start(b, stepping, hearing) ==
    /\ tracks = <<>>
    /\ current_index = 0
    /\ loaded = FALSE
    /\ playing = FALSE
    /\ volume = DefaultVolume
    /\ position = 0
    /\ crashed = FALSE
    /\ cmdq = <<>>
    /\ resq = <<>>
    /\ bUri = 0
    /\ bVolume = 0
    /\ bNews = 0
    /\ sent = 0
    /\ rcvd = 0
    /\ taken = 0
    /\ evicted = 0
    /\ userVol = 0
    /\ last = NoLast
    /\ saved_playlists = <<>>
    /\ disk = 0
    /\ ledger = NoLedger
    /\ closed = FALSE
    /\ closedPolls = 0
    /\ budget = b
    /\ silent = 0
    /\ toggle = NoToggle
    /\ task = Idle(stepping)
    /\ heard = Hearing(hearing)

Init == Start(MaxSent, FALSE, FALSE)

\* ------------------------------------------------------------ Controller
\* Controller::*: self.tx.send(command).  Fire and forget; the command is
\* numbered by `sent`, and an overwrite of the oldest pending one is counted.
\* Once Player::run has panicked the receiver is dropped and send fails.
Send(c) ==
    /\ ~crashed
    /\ ~closed
    /\ sent < budget
    /\ ~SendBlocks(cmdq, CmdCapacity)
    /\ sent' = sent + 1
    /\ cmdq' = RingSend(cmdq, [op |-> c.op, arg |-> c.arg, n |-> sent + 1], CmdCapacity)
    /\ evicted' = IF Len(cmdq) = CmdCapacity THEN evicted + 1 ELSE evicted

Enqueue(c) ==
    /\ Send(c)
    /\ UNCHANGED <<core, resq, bUri, bVolume, bNews, rcvd, taken, userVol, last,
                   store, env, silent, toggle, task, heard>>

Controller_load == \E path \in Paths : Enqueue(Cmd("LoadFromFolder", path))

Controller_play == Enqueue(Cmd("Play", 0))

Controller_play_id == \E id \in PlayIds : Enqueue(Cmd("PlayId", id))

Controller_pause == Enqueue(Cmd("Pause", 0))

Controller_next == Enqueue(Cmd("Next", 0))

Controller_prev == Enqueue(Cmd("Previous", 0))

Controller_get_meta == Enqueue(Cmd("GetMeta", 0))

Controller_volume == \E vol \in Volumes : Enqueue(Cmd("Volume", vol))

Controller_open_folder == Enqueue(Cmd("LoadFolder", 0))

Controller_get_queue == Enqueue(Cmd("GetTracks", 0))

Controller_load_saved_playlists == Enqueue(Cmd("LoadSavedPlaylists", 0))

\* Controller::save_playlist has an empty body: it returns having sent nothing.
Controller_save_playlist ==
    /\ ~crashed
    /\ ~closed
    /\ sent + silent < budget
    /\ silent' = silent + 1
    /\ UNCHANGED <<core, cmdq, resq, bUri, bVolume, bNews, sent, rcvd, taken, evicted,
                   userVol, last, store, env, toggle, task, heard>>

\* No Controller method sends AddSavedPlaylist or WriteSavedPlaylists: a
\* holder of the handle sends them through its public tx field.
Tx_AddSavedPlaylist == \E p \in SavedNames : Enqueue(Cmd("AddSavedPlaylist", p))

Tx_WriteSavedPlaylists == Enqueue(Cmd("WriteSavedPlaylists", 0))

\* Nor does any send Seek.
Tx_Seek == \E t \in SeekTimes : Enqueue(Cmd("Seek", t))

\* ------------------------------------------------------------------ Core
\* Mutant: every command is spawned as a task of its own, the loop goes on
\* receiving while an earlier command is suspended.
CanTakeAlways == TRUE

\* Can the loop reach self.rx.try_recv(): the arm of the command before has
\* run to its end.
CanTake == task.script = <<>>

\* self.rx.try_recv() returned Ok(command) with command.op = op.
Received(op) ==
    /\ ~crashed
    /\ CanTake
    /\ cmdq # <<>>
    /\ Head(cmdq).op = op

\* What the backend holds after the calls of one command: a successful load
\* replaces the track and resets the per-track volume, a successful
\* set_volume sets it.
RECURSIVE UriAfter(_, _)
UriAfter(u, cs) ==
    IF cs = <<>> THEN u
    ELSE UriAfter(IF Head(cs).f = "load" /\ Head(cs).ok THEN Head(cs).a ELSE u, Tail(cs))

RECURSIVE VolumeAfter(_, _)
VolumeAfter(v, cs) ==
    IF cs = <<>> THEN v
    ELSE VolumeAfter(IF Head(cs).f = "load" /\ Head(cs).ok THEN 0
                     ELSE IF Head(cs).f = "set_volume" /\ Head(cs).ok THEN Head(cs).a
                     ELSE v, Tail(cs))

\* self.tx.send(..) in Player::run returns Err, and its expect/unwrap
\* panics, once the response channel has no receiver left.
Disconnected == closed

\* Progress of a Play, Pause, Play sequence after one more command: a Play
\* reaching backend.play() on a not-playing playlist starts it (stage 1), a
\* Pause directly after it is stage 2, a Play directly after that stage 3;
\* `calls` collects the backend methods called, `plays` the value of playing
\* after each of the commands.
ToggleAfter(op, calls, pl) ==
    LET names == [i \in 1..Len(calls) |-> calls[i].f]
    IN  IF op = "Play" /\ toggle.stage = 2
        THEN [stage |-> 3, calls |-> toggle.calls \o names,
              plays |-> Append(toggle.plays, pl)]
        ELSE IF op = "Play" /\ loaded /\ ~playing /\ tracks # <<>>
        THEN [stage |-> 1, calls |-> names, plays |-> <<pl>>]
        ELSE IF op = "Pause" /\ toggle.stage = 1
        THEN [stage |-> 2, calls |-> toggle.calls \o names,
              plays |-> Append(toggle.plays, pl)]
        ELSE NoToggle

\* The saved playlists as the commands handled so far built them: `adds` in
\* insertion order since the last load, `wrote` as they were at the last save
\* that returned Ok.
LedgerAfter(op, arg, panic) ==
    IF panic THEN ledger
    ELSE IF op = "AddSavedPlaylist" THEN [ledger EXCEPT !.adds = Append(@, arg)]
    ELSE IF op = "WriteSavedPlaylists"
    THEN [ledger EXCEPT !.wrote = ledger.adds, !.written = TRUE]
    ELSE IF op = "LoadSavedPlaylists" THEN [ledger EXCEPT !.adds = ledger.wrote]
    ELSE ledger

\* Mutant: the guard is kept to the end of the arm.
LockedCopyHeld == <<"lock">>

\* { let guard = self.playlist.lock().expect(..); guard.clone() }: the guard
\* is taken, the data copied out, and the guard dropped at the block's end.
LockedCopy == <<"lock", "unlock">>

\* call(..).await: the task is suspended until the call returns.
Await == <<"call", "ret">>

\* The steps of an arm from its first backend call on, given the calls it
\* made and the responses it sent: play_next and play_id read the playlist
\* after stop, play_next and play_previous copy it before their load; the
\* notice of Play, Pause and Volume and the StateChanged of Next, Previous
\* and PlayId go out right before the call, an Error after it.
\* save_playlists is a plain call, not a suspension point.
RECURSIVE Weave(_, _, _)
Weave(op, calls, out) ==
    IF calls = <<>> THEN [i \in 1..Len(out) |-> "send"]
    ELSE LET c == Head(calls)
             notice == out # <<>> /\ (c.f \in {"play", "pause"}
                                        \/ (c.f = "set_volume" /\ op = "Volume"))
             before == IF c.f = "load" /\ op \in {"Next", "Previous"}
                       THEN LockedCopy ELSE <<>>
             after == IF c.f = "stop" /\ c.ok /\ op \in {"Next", "PlayId"}
                      THEN LockedCopy ELSE <<>>
         IN  before
                 \o (IF notice THEN <<"send">> ELSE <<>>)
                 \o (IF c.f = "save_playlists" THEN <<>> ELSE Await)
                 \o after
                 \o Weave(op, Tail(calls), IF notice THEN Tail(out) ELSE out)

\* The steps of a whole arm.  Play, GetMeta and GetTracks begin by copying
\* the playlist; LoadFromFolder begins by awaiting from_dir, LoadFolder by
\* awaiting the dialog.
Timeline(op, calls, out) ==
    (IF op \in {"Play", "GetMeta", "GetTracks"} THEN LockedCopy
     ELSE IF op \in {"LoadFromFolder", "LoadFolder"} THEN Await
     ELSE <<>>) \o Weave(op, calls, out)

\* The end of a command's match arm: the command is consumed, the responses
\* `out` were sent in order, the backend saw `calls`, and the Player's fields
\* are as the arm left them; panic = an expect/unwrap/index panicked.
End(calls, out, panic, idx, ld, pl, vol, trk, sp, dk) ==
    /\ out # <<>> => ~SendBlocks(resq, ResCapacity)
    /\ saved_playlists' = sp
    /\ disk' = dk
    /\ task' = IF task.stepping
               THEN [task EXCEPT !.script = Timeline(Head(cmdq).op, calls, out),
                                 !.held = FALSE, !.awaiting = FALSE]
               ELSE task
    /\ ledger' = LedgerAfter(Head(cmdq).op, Head(cmdq).arg, panic)
    /\ toggle' = ToggleAfter(Head(cmdq).op, calls, pl)
    /\ cmdq' = Tail(cmdq)
    /\ rcvd' = Head(cmdq).n
    /\ taken' = taken + 1
    /\ userVol' = IF Head(cmdq).op = "Volume" /\ loaded /\ ~panic
                  THEN Head(cmdq).arg ELSE userVol
    /\ resq' = SendAll(resq, out, ResCapacity)
    /\ current_index' = idx
    /\ loaded' = ld
    /\ playing' = pl
    /\ volume' = vol
    /\ tracks' = trk
    /\ crashed' = panic
    /\ bUri' = UriAfter(bUri, calls)
    /\ bVolume' = VolumeAfter(bVolume, calls)
    /\ last' = [op |-> Head(cmdq).op, arg |-> Head(cmdq).arg,
                index |-> current_index, loaded |-> loaded, playing |-> playing,
                len |-> Len(tracks), calls |-> calls, out |-> out, panic |-> panic]
    /\ UNCHANGED <<position, bNews, sent, evicted, env, silent, heard>>

\* The end of an arm that leaves the saved playlists alone.
Finish(calls, out, panic, idx, ld, pl, vol, trk) ==
    End(calls, out, panic, idx, ld, pl, vol, trk, saved_playlists, disk)

\* An arm whose first self.tx.send(..) panics: nothing after it happens.
Hangup(calls, idx) ==
    Finish(calls, <<>>, TRUE, idx, loaded, playing, volume, tracks)

\* Playlist::load(backend, index): hands the track at `index` to the backend.
\* With no track at `index` it either fails or does nothing.
PlaylistLoad(trk, index, f) ==
    IF index < Len(trk)
    THEN [calls |-> <<BCall("load", trk[index + 1], f # "load")>>, ok |-> f # "load"]
    ELSE [calls |-> <<>>, ok |-> f # "load"]

\* Mutant: off by one in the bound check, the index may reach len.
play_next_overshoot(f) ==
    IF current_index + 1 <= Len(tracks)
    THEN LET l == PlaylistLoad(tracks, current_index + 1, f)
         IN  [index |-> current_index + 1, calls |-> l.calls, ok |-> l.ok]
    ELSE [index |-> current_index, calls |-> <<>>, ok |-> TRUE]

\* Player::play_next
play_next(f) ==
    IF current_index + 1 < Len(tracks)
    THEN LET l == PlaylistLoad(tracks, current_index + 1, f)
         IN  [index |-> current_index + 1, calls |-> l.calls, ok |-> l.ok]
    ELSE [index |-> current_index, calls |-> <<>>, ok |-> TRUE]

\* Mutant: Previous on the first track wraps to the last one.
play_previous_wrap(f) ==
    IF current_index > 0
    THEN LET l == PlaylistLoad(tracks, current_index - 1, f)
         IN  [index |-> current_index - 1, calls |-> l.calls, ok |-> l.ok]
    ELSE LET l == PlaylistLoad(tracks, Len(tracks) - 1, f)
         IN  [index |-> Len(tracks) - 1, calls |-> l.calls, ok |-> l.ok]

\* Player::play_previous
play_previous(f) ==
    IF current_index > 0
    THEN LET l == PlaylistLoad(tracks, current_index - 1, f)
         IN  [index |-> current_index - 1, calls |-> l.calls, ok |-> l.ok]
    ELSE [index |-> current_index, calls |-> <<>>, ok |-> TRUE]

\* Player::play_id: tracks[id] panics when id is out of bounds.
play_id(id, f) ==
    IF id < Len(tracks)
    THEN [index |-> id, calls |-> <<BCall("load", tracks[id + 1], f # "load")>>,
          ok |-> f # "load"]
    ELSE [index |-> id, calls |-> <<>>, ok |-> FALSE]

\* Mutant: the arm does not test self.loaded.
NavGuardAlways == TRUE

\* Does the arm of Next / Previous / PlayId act at all.
NavGuard == loaded

\* Mutant: the volume is reapplied before playback starts.
VolumeThenPlay(f) ==
    <<BCall("set_volume", volume, f # "set_volume"), BCall("play", 0, TRUE)>>

\* The end of the arm of Next, Previous and PlayId once play returned Ok:
\* backend.play(), then backend.set_volume(self.volume).
PlayThenVolume(f) ==
    <<BCall("play", 0, TRUE), BCall("set_volume", volume, f # "set_volume")>>

\* The arm shared, line for line, by Command::Next, Previous and PlayId:
\* stop, the helper `nav`, StateChanged(Playing), play, playing = true,
\* set_volume(self.volume); every Err is an expect panic.
Navigate(nav, f) ==
    IF ~NavGuard
    THEN Finish(<<>>, <<>>, FALSE, current_index, loaded, playing, volume, tracks)
    ELSE IF f = "stop"
    THEN Finish(<<BCall("stop", 0, FALSE)>>, <<>>, TRUE,
                current_index, loaded, playing, volume, tracks)
    ELSE IF ~nav.ok
    THEN Finish(<<BCall("stop", 0, TRUE)>> \o nav.calls, <<>>, TRUE,
                nav.index, loaded, playing, volume, tracks)
    ELSE IF Disconnected
    THEN Hangup(<<BCall("stop", 0, TRUE)>> \o nav.calls, nav.index)
    ELSE IF f = "play"
    THEN Finish(<<BCall("stop", 0, TRUE)>> \o nav.calls \o <<BCall("play", 0, FALSE)>>,
                <<Res("StateChanged", Playing)>>, TRUE,
                nav.index, loaded, playing, volume, tracks)
    ELSE Finish(<<BCall("stop", 0, TRUE)>> \o nav.calls \o PlayThenVolume(f),
                <<Res("StateChanged", Playing)>>, f = "set_volume",
                nav.index, loaded, TRUE, volume, tracks)

\* Command::Next
HandleNext ==
    /\ Received("Next")
    /\ \E f \in FailsOf({"stop", "load", "play", "set_volume"}) : Navigate(play_next(f), f)

\* Command::Previous
HandlePrevious ==
    /\ Received("Previous")
    /\ \E f \in FailsOf({"stop", "load", "play", "set_volume"}) : Navigate(play_previous(f), f)

\* Command::PlayId(id)
HandlePlayId ==
    /\ Received("PlayId")
    /\ \E f \in FailsOf({"stop", "load", "play", "set_volume"}) : Navigate(play_id(Head(cmdq).arg, f), f)

\* Mutant: the arm does not test tracks.is_empty().
PlayGuardNoEmptyTest == ~playing /\ loaded

\* Does Command::Play reach backend.play().
PlayGuard == tracks # <<>> /\ ~playing /\ loaded

\* Mutant: self.playing is set only when backend.play() returned Ok.
PlayingOnlyOnOk(ok) == ok

\* self.playing after backend.play() returned (ok: it returned Ok): the arm
\* sets it whatever the result.
PlayingAfterPlay(ok) == TRUE

\* Command::Play.  An Err of backend.play() is reported by map_err and the
\* arm goes on to set self.playing.
HandlePlay ==
    /\ Received("Play")
    /\ \E f \in FailsOf({"play"}) :
         IF tracks # <<>> /\ ~playing /\ Disconnected
         THEN Hangup(<<>>, current_index)
         ELSE IF PlayGuard
         THEN Finish(<<BCall("play", 0, f # "play")>>,
                     <<Res("StateChanged", Playing)>>
                         \o (IF f = "play" THEN <<Res("Error", 0)>> ELSE <<>>),
                     FALSE, current_index, loaded, PlayingAfterPlay(f # "play"),
                     volume, tracks)
         ELSE IF tracks # <<>> /\ ~playing
         THEN Finish(<<>>, <<Res("Error", 0)>>, FALSE,
                     current_index, loaded, playing, volume, tracks)
         ELSE Finish(<<>>, <<>>, FALSE, current_index, loaded, playing, volume, tracks)

\* Mutant: the arm does not test self.playing.
PauseGuardAlways == TRUE

\* Does Command::Pause act at all.
PauseGuard == playing

\* Command::Pause
HandlePause ==
    /\ Received("Pause")
    /\ \E f \in FailsOf({"pause"}) :
         IF PauseGuard /\ Disconnected
         THEN Hangup(<<>>, current_index)
         ELSE IF PauseGuard
         THEN Finish(<<BCall("pause", 0, f # "pause")>>,
                     <<Res("StateChanged", Paused)>>
                         \o (IF f = "pause" THEN <<Res("Error", 0)>> ELSE <<>>),
                     FALSE, current_index, loaded, FALSE, volume, tracks)
         ELSE Finish(<<>>, <<>>, FALSE, current_index, loaded, playing, volume, tracks)

\* Mutant: the arm sets the backend's volume and forgets self.volume.
StoredVolumeForgotten(vol) == volume

\* The volume Command::Volume(vol) stores in self.volume.
StoredVolume(vol) == vol

\* Command::Volume(vol)
HandleVolume ==
    /\ Received("Volume")
    /\ \E f \in FailsOf({"set_volume"}) :
         LET vol == Head(cmdq).arg
         IN  IF ~loaded
             THEN Finish(<<>>, <<>>, FALSE, current_index, loaded, playing, volume, tracks)
             ELSE IF Disconnected
             THEN Hangup(<<>>, current_index)
             ELSE IF f = "set_volume"
             THEN Finish(<<BCall("set_volume", vol, FALSE)>>, <<Res("Info", vol)>>, TRUE,
                         current_index, loaded, playing, volume, tracks)
             ELSE Finish(<<BCall("set_volume", vol, TRUE)>>, <<Res("Info", vol)>>, FALSE,
                         current_index, loaded, playing, StoredVolume(vol), tracks)

\* Command::GetMeta: tracks[self.current_index] panics when out of bounds.
HandleGetMeta ==
    /\ Received("GetMeta")
    /\ IF ~loaded
       THEN Finish(<<>>, <<>>, FALSE, current_index, loaded, playing, volume, tracks)
       ELSE IF current_index < Len(tracks) /\ Disconnected
       THEN Hangup(<<>>, current_index)
       ELSE IF current_index < Len(tracks)
       THEN Finish(<<>>, <<Res("Metadata", tracks[current_index + 1])>>, FALSE,
                   current_index, loaded, playing, volume, tracks)
       ELSE Finish(<<>>, <<>>, TRUE, current_index, loaded, playing, volume, tracks)

\* The index Command::LoadFromFolder leaves in self.current_index: the arm
\* does not assign it.
LoadIndex == current_index

\* Command::LoadFromFolder(path)
HandleLoadFromFolder ==
    /\ Received("LoadFromFolder")
    /\ \E f \in FailsOf({"load"}) :
         LET playlist == from_dir(Head(cmdq).arg)
             l == PlaylistLoad(playlist, 0, f)
         IN  IF ~l.ok
             THEN Finish(l.calls, <<>>, TRUE, current_index, loaded, playing, volume, tracks)
             ELSE Finish(l.calls, <<>>, FALSE, LoadIndex, TRUE, playing, volume, playlist)

\* Command::LoadFolder: the folder dialog returns a folder (pick in Folders)
\* or is cancelled (pick = 0); a folder is loaded as by LoadFromFolder.
HandleLoadFolder ==
    /\ Received("LoadFolder")
    /\ \E pick \in Folders \cup {0}, f \in FailsOf({"load"}) :
         LET playlist == from_dir(pick)
             l == PlaylistLoad(playlist, 0, f)
         IN  IF pick = 0
             THEN Finish(<<>>, <<>>, FALSE, current_index, loaded, playing, volume, tracks)
             ELSE IF ~l.ok
             THEN Finish(l.calls, <<>>, TRUE, current_index, loaded, playing, volume, tracks)
             ELSE Finish(l.calls, <<>>, FALSE, LoadIndex, TRUE, playing, volume, playlist)

\* Command::GetTracks
HandleGetTracks ==
    /\ Received("GetTracks")
    /\ IF ~loaded
       THEN Finish(<<>>, <<>>, FALSE, current_index, loaded, playing, volume, tracks)
       ELSE IF Disconnected
       THEN Hangup(<<>>, current_index)
       ELSE Finish(<<>>, <<Res("Tracks", Len(tracks))>>, FALSE,
                   current_index, loaded, playing, volume, tracks)

\* Mutant: the arm does not test self.playing.
SeekGuardAlways == TRUE

\* Does Command::Seek act at all.
SeekGuard == playing

\* Command::Seek(time): the expect panics when the backend's seek fails.
HandleSeek ==
    /\ Received("Seek")
    /\ \E f \in FailsOf({"seek"}) :
         IF SeekGuard
         THEN Finish(<<BCall("seek", Head(cmdq).arg, f # "seek")>>, <<>>, f = "seek",
                     current_index, loaded, playing, volume, tracks)
         ELSE Finish(<<>>, <<>>, FALSE, current_index, loaded, playing, volume, tracks)

\* Command::LoadSavedPlaylists
HandleLoadSavedPlaylists ==
    /\ Received("LoadSavedPlaylists")
    /\ LET sp == StoreLoad(disk)
       IN  IF Disconnected
           THEN End(<<>>, <<>>, TRUE, current_index, loaded, playing, volume, tracks,
                    sp, disk)
           ELSE End(<<>>, <<Res("SavedPlaylists", Encode(sp))>>, FALSE,
                    current_index, loaded, playing, volume, tracks, sp, disk)

\* Command::WriteSavedPlaylists: an Err of save_playlists is an expect panic.
HandleWriteSavedPlaylists ==
    /\ Received("WriteSavedPlaylists")
    /\ \E ok \in BOOLEAN :
         End(<<BCall("save_playlists", Encode(saved_playlists), ok)>>, <<>>, ~ok,
             current_index, loaded, playing, volume, tracks,
             saved_playlists, IF ok THEN StoreSave(saved_playlists) ELSE disk)

\* Mutant: the new playlist is put in front.
PushSavedFront(sp, p) == <<p>> \o sp

\* self.saved_playlists.playlists.push(playlist)
PushSaved(sp, p) == Append(sp, p)

\* Command::AddSavedPlaylist(playlist)
HandleAddSavedPlaylist ==
    /\ Received("AddSavedPlaylist")
    /\ End(<<>>, <<>>, FALSE, current_index, loaded, playing, volume, tracks,
           PushSaved(saved_playlists, Head(cmdq).arg), disk)

\* Mutant: the position is published at every tick.
PositionChangedAlways(curr_pos) == TRUE

\* if self.position != curr_pos
PositionChanged(curr_pos) == position # curr_pos

\* Mutant: the position goes out before the monitor's event.
PublishedPositionFirst(ev, curr_pos) ==
    (IF PositionChanged(curr_pos) THEN <<Res("Position", curr_pos)>> ELSE <<>>)
        \o (IF ev = NoEvent THEN <<>> ELSE <<ev>>)

\* What the tail of one iteration sends: the monitor's event as it is, then
\* the position when it changed.
Published(ev, curr_pos) ==
    (IF ev = NoEvent THEN <<>> ELSE <<ev>>)
        \o (IF PositionChanged(curr_pos) THEN <<Res("Position", curr_pos)>> ELSE <<>>)

\* Mutant: the Core takes end-of-stream as the end of playback.
PlayingClearedOnEos(ev) == IF ev.type = "Eos" THEN FALSE ELSE playing

\* self.playing after the monitor's event was republished: the tail of the
\* loop does not assign it.
PlayingAfterEvent(ev) == playing

\* The positions backend.get_position() can return: the one before, one
\* further, and in a hearing run the start of a new track.
Positions == {position, position + 1} \cup (IF heard.on THEN {0} ELSE {})

\* The tail of one loop iteration, reached when try_recv finds the command
\* channel empty: republish the monitor's event, publish a changed position.
Poll ==
    /\ ~crashed
    /\ task.script = <<>>
    /\ cmdq = <<>>
    /\ \E ev \in MonitorEvents \cup {NoEvent}, curr_pos \in Positions :
         LET out == Published(ev, curr_pos)
             news == ev # NoEvent \/ curr_pos # position
         IN  /\ news => bNews < heard.news /\ ~SendBlocks(resq, ResCapacity)
             /\ bNews' = IF news THEN bNews + 1 ELSE bNews
             /\ heard' = IF heard.on
                         THEN [heard EXCEPT !.ev = ev, !.at = taken,
                                            !.uri = IF ev.type = "StreamStart"
                                                    THEN bUri ELSE @]
                         ELSE heard
             /\ IF out # <<>> /\ Disconnected
                THEN crashed' = TRUE /\ UNCHANGED <<resq, position, playing>>
                ELSE /\ resq' = SendAll(resq, out, ResCapacity)
                     /\ position' = curr_pos
                     /\ playing' = PlayingAfterEvent(ev)
                     /\ UNCHANGED crashed
             /\ closedPolls' = IF closed /\ out = <<>> /\ closedPolls < 2
                               THEN closedPolls + 1 ELSE closedPolls
    /\ UNCHANGED <<tracks, current_index, loaded, volume,
                   cmdq, bUri, bVolume, sent, rcvd, taken, evicted, userVol, last,
                   store, closed, budget, silent, toggle, task>>

\* -------------------------------------------------------------- frontend
\* run_app: the response loop takes one response; the subscriber answers Eos
\* with Controller::next and StreamStart with Controller::get_meta.
FrontendRecv ==
    /\ ~closed
    /\ resq # <<>>
    /\ resq' = Tail(resq)
    /\ IF Head(resq).type = "Eos" THEN Send(Cmd("Next", 0))
       ELSE IF Head(resq).type = "StreamStart" THEN Send(Cmd("GetMeta", 0))
       ELSE UNCHANGED <<cmdq, sent, evicted>>
    /\ UNCHANGED <<core, bUri, bVolume, bNews, rcvd, taken, userVol, last,
                   store, env, silent, toggle, task, heard>>

\* One step of the command in progress: the guard is taken (when free) or
\* dropped, an awaited call begins or returns, a response goes out.  The
\* command's outcome is the one its arm computed when it was received.
Step ==
    /\ task.script # <<>>
    /\ Head(task.script) = "lock" => ~task.held
    /\ task' = [task EXCEPT
                  !.script = Tail(@),
                  !.held = IF Head(task.script) = "lock" THEN TRUE
                           ELSE IF Head(task.script) = "unlock" THEN FALSE ELSE @,
                  !.awaiting = IF Head(task.script) = "call" THEN TRUE
                               ELSE IF Head(task.script) = "ret" THEN FALSE ELSE @]
    /\ UNCHANGED others

\* The application drops the Controller and every clone of it: both channels
\* lose their frontend endpoint.
DropController ==
    /\ ~closed
    /\ closed' = TRUE
    /\ UNCHANGED <<core, cmdq, resq, bUri, bVolume, bNews, sent, rcvd, taken, evicted,
                   userVol, last, store, closedPolls, budget, silent, toggle, task, heard>>

\* ------------------------------------------------------------------ Spec
Next ==
    \/ Controller_load
    \/ Controller_play
    \/ Controller_play_id
    \/ Controller_pause
    \/ Controller_next
    \/ Controller_prev
    \/ Controller_get_meta
    \/ Controller_volume
    \/ HandlePlay
    \/ HandlePause
    \/ HandleVolume
    \/ HandleGetMeta
    \/ HandleNext
    \/ HandlePrevious
    \/ HandlePlayId
    \/ HandleLoadFromFolder
    \/ Poll
    \/ FrontendRecv

Spec == Init /\ [][Next]_vars

\* The transport buttons and both ways of loading a folder, with one more
\* command than in Spec: long enough for Load, Play, Pause, Play.
InitTransport == Start(MaxSent + 1, FALSE, FALSE)

NextTransport ==
    \/ Controller_load
    \/ Controller_open_folder
    \/ Controller_play
    \/ Controller_pause
    \/ HandleLoadFromFolder
    \/ HandleLoadFolder
    \/ HandlePlay
    \/ HandlePause
    \/ HandleNext
    \/ HandleGetMeta
    \/ Poll
    \/ FrontendRecv

SpecTransport == InitTransport /\ [][NextTransport]_vars

\* The same with a frontend that has stopped reading responses: nothing
\* leaves the response channel.
CoreHandles ==
    \/ HandleLoadFromFolder
    \/ HandleLoadFolder
    \/ HandlePlay
    \/ HandlePause

NextStalled ==
    \/ Controller_load
    \/ Controller_open_folder
    \/ Controller_play
    \/ Controller_pause
    \/ CoreHandles
    \/ Poll

SpecStalled == InitTransport /\ [][NextStalled]_vars

\* A run followed through the suspension points of every command.
InitSteps == Start(MaxSent, TRUE, FALSE)

NextSteps ==
    \/ Controller_load
    \/ Controller_play
    \/ Controller_next
    \/ Controller_prev
    \/ HandleLoadFromFolder
    \/ HandlePlay
    \/ HandleNext
    \/ HandlePrevious
    \/ HandleGetMeta
    \/ Step
    \/ Poll
    \/ FrontendRecv

SpecSteps == InitSteps /\ [][NextSteps]_vars

\* Folders loaded one after the other, navigation and the two queries, with
\* one more command than in Spec: long enough for Load, Next, Load, GetMeta.
NextReload ==
    \/ Controller_load
    \/ Controller_next
    \/ Controller_get_meta
    \/ Controller_get_queue
    \/ HandleLoadFromFolder
    \/ HandleNext
    \/ HandleGetMeta
    \/ HandleGetTracks
    \/ Poll
    \/ FrontendRecv

SpecReload == InitTransport /\ [][NextReload]_vars

\* A run that keeps what the backend's monitor returned, with one more poll
\* with news than in Spec and the frontend's answers to Eos and StreamStart.
InitPoll == Start(MaxSent, FALSE, TRUE)

NextPoll ==
    \/ Controller_load
    \/ Controller_play
    \/ HandleLoadFromFolder
    \/ HandlePlay
    \/ HandleNext
    \/ HandleGetMeta
    \/ Poll
    \/ FrontendRecv

SpecPoll == InitPoll /\ [][NextPoll]_vars

\* A hearing run in which every GetMeta is the frontend's answer to a
\* StreamStart, long enough for Load, Next, Load and that GetMeta.
InitMeta == Start(MaxSent + 1, FALSE, TRUE)

NextMeta ==
    \/ Controller_load
    \/ Controller_next
    \/ HandleLoadFromFolder
    \/ HandleNext
    \/ HandleGetMeta
    \/ Poll
    \/ FrontendRecv

SpecMeta == InitMeta /\ [][NextMeta]_vars

\* A run in which the Controller is dropped at some point.
NextShutdown ==
    \/ Controller_load
    \/ Controller_play
    \/ HandleLoadFromFolder
    \/ HandlePlay
    \/ HandleNext
    \/ HandleGetMeta
    \/ Poll
    \/ FrontendRecv
    \/ DropController

SpecShutdown == Init /\ [][NextShutdown]_vars

\* The saved playlists: add, write, load.
NextStore ==
    \/ Tx_AddSavedPlaylist
    \/ Tx_WriteSavedPlaylists
    \/ Controller_load_saved_playlists
    \/ HandleAddSavedPlaylist
    \/ HandleWriteSavedPlaylists
    \/ HandleLoadSavedPlaylists
    \/ Poll
    \/ FrontendRecv

SpecStore == InitTransport /\ [][NextStore]_vars

\* Every operation of the Controller.
ControllerOps ==
    \/ Controller_load
    \/ Controller_open_folder
    \/ Controller_play
    \/ Controller_play_id
    \/ Controller_pause
    \/ Controller_next
    \/ Controller_prev
    \/ Controller_get_meta
    \/ Controller_get_queue
    \/ Controller_volume
    \/ Controller_load_saved_playlists
    \/ Controller_save_playlist

\* Every command, every sender.
NextFull ==
    \/ ControllerOps
    \/ Tx_AddSavedPlaylist
    \/ Tx_WriteSavedPlaylists
    \/ Next
    \/ HandleLoadFolder
    \/ HandleGetTracks
    \/ HandleAddSavedPlaylist
    \/ HandleWriteSavedPlaylists
    \/ HandleLoadSavedPlaylists

SpecFull == Init /\ [][NextFull]_vars

\* The commands that act under a precondition, with the Load and the Play
\* that establish it.
NextGuards ==
    \/ Controller_load
    \/ Controller_play
    \/ Controller_next
    \/ Controller_prev
    \/ Controller_play_id
    \/ Controller_volume
    \/ Controller_get_meta
    \/ Controller_get_queue
    \/ Tx_Seek
    \/ HandleLoadFromFolder
    \/ HandlePlay
    \/ HandleNext
    \/ HandlePrevious
    \/ HandlePlayId
    \/ HandleVolume
    \/ HandleGetMeta
    \/ HandleGetTracks
    \/ HandleSeek

SpecGuards == Init /\ [][NextGuards]_vars

\* ---------------------------------------------------------------- claims
Range(q) == {q[i] : i \in 1..Len(q)}

NavOps == {"Next", "Previous", "PlayId"}

\* The last command was op, handled on a loaded playlist.
LastOn(op) == last.op = op /\ last.loaded

\* The last command's backend.stop() returned Err: the arm panicked before
\* its navigation helper ran.
LastStopFailed ==
    last.calls # <<>> /\ last.calls[1].f = "stop" /\ ~last.calls[1].ok

\* A backend call of the last command returned Err.
LastBackendFailure == \E i \in 1..Len(last.calls) : ~last.calls[i].ok

\* C1: whenever loaded is true (and the Core is running), current_index is a
\* valid index of the live playlist.
C1_IndexInRange == (loaded /\ ~crashed) => current_index < Len(tracks)

\* C2: in every reachable state, playing implies loaded.
C2_PlayingImpliesLoaded == playing => loaded

\* C2 witness: a command has set playing on a loaded playlist.
C2_Witness == playing /\ loaded /\ last.op \in NavOps \cup {"Play"}

\* C3: a command whose backend call returned an error never ends the event
\* loop: the Core is still running and the command emitted an Error response.
C3_BackendFailureSurvived ==
    LastBackendFailure => (~crashed /\ Res("Error", 0) \in Range(last.out))

\* C4: PlayById(i) with i outside [0, len) on a loaded playlist is rejected
\* with an Error response: no panic, current_index unchanged.
C4_PlayIdOutOfRangeRejected ==
    (LastOn("PlayId") /\ last.arg >= last.len)
        => /\ ~last.panic
           /\ Res("Error", 0) \in Range(last.out)
           /\ current_index = last.index

\* C5: a load that fails during Next, Previous or PlayById leaves
\* current_index and loaded as they were before the command.
C5_FailedLoadKeepsIndex ==
    (last.op \in NavOps
        /\ \E i \in 1..Len(last.calls) : last.calls[i].f = "load" /\ ~last.calls[i].ok)
        => (current_index = last.index /\ loaded = last.loaded)

\* C6: Next never wraps and never overshoots: a Next on a loaded playlist
\* whose play_next ran raises current_index by exactly 1 while
\* current_index + 1 < len and leaves it unchanged otherwise; whatever the
\* backend does, a Next moves the index by at most one step forward and
\* never moves it from the last track.
C6_NextNeverWraps ==
    LastOn("Next")
        => /\ ~LastStopFailed =>
                current_index = IF last.index + 1 < last.len
                                THEN last.index + 1 ELSE last.index
           /\ current_index \in {last.index, last.index + 1}
           /\ last.index + 1 >= last.len => current_index = last.index

\* C6 witness: Next at the last track of a playlist of several tracks left
\* current_index where it was.
C6_Witness ==
    /\ LastOn("Next") /\ ~last.panic
    /\ last.len >= 2 /\ last.index = last.len - 1
    /\ current_index = last.index

\* C7: Next at current_index = len - 1 (and Previous at current_index = 0) is
\* a silent no-op: no backend call, no StateChanged, playing unchanged.
C7_BoundaryIsSilent ==
    (\/ LastOn("Next") /\ last.index + 1 = last.len
     \/ LastOn("Previous") /\ last.index = 0)
        => /\ last.calls = <<>>
           /\ last.out = <<>>
           /\ playing = last.playing

\* C8: Previous never wraps: a Previous on a loaded playlist whose
\* play_previous ran lowers current_index by exactly 1 while
\* current_index > 0 and leaves it unchanged at 0; whatever the backend
\* does, a Previous moves the index by at most one step back and never
\* moves it from 0.
C8_PreviousNeverWraps ==
    LastOn("Previous")
        => /\ ~LastStopFailed =>
                current_index = IF last.index > 0 THEN last.index - 1 ELSE 0
           /\ current_index \in {last.index, last.index - 1}
           /\ last.index = 0 => current_index = 0

\* C8 witness: Previous at the first track of a playlist of several tracks
\* left current_index at 0.
C8_Witness ==
    /\ LastOn("Previous") /\ ~last.panic
    /\ last.len >= 2 /\ last.index = 0
    /\ current_index = 0

\* C9: once a Volume(v) was carried out on a loaded playlist, every Next,
\* Previous or PlayById that runs to its end has set_volume(v) as its last
\* backend call, after the load of the new track and after play, so the
\* volume in effect in the backend is the most recently set v.
C9_VolumeReapplied ==
    (last.op \in NavOps /\ last.loaded /\ ~last.panic /\ userVol # 0)
        => /\ last.calls # <<>>
           /\ last.calls[Len(last.calls)] = BCall("set_volume", userVol, TRUE)
           /\ bVolume = userVol

\* C9 witness: a track change that loaded a new track after a Volume command.
C9_Witness ==
    /\ last.op \in NavOps /\ last.loaded /\ ~last.panic
    /\ userVol # 0 /\ userVol # DefaultVolume
    /\ current_index # last.index
    /\ \E i \in 1..Len(last.calls) : last.calls[i].f = "load" /\ last.calls[i].ok
    /\ bVolume = userVol

\* C10: channel overwrite law.  The command channel always holds exactly the
\* most recently enqueued commands, oldest first, and every one of them is
\* newer than any command the Core has received; each enqueue on a full
\* channel loses exactly one command, the oldest; after capacity + 1
\* enqueues with none received exactly command 1 is gone.
C10_ChannelOverwrite ==
    /\ Len(cmdq) <= CmdCapacity
    /\ \A i \in 1..Len(cmdq) : cmdq[i].n = sent - Len(cmdq) + i
    /\ cmdq # <<>> => rcvd < cmdq[1].n
    /\ sent = taken + evicted + Len(cmdq)
    /\ (taken = 0 /\ sent = CmdCapacity + 1)
           => (evicted = 1 /\ Len(cmdq) = CmdCapacity /\ cmdq[1].n = 2)

\* C10 witness: capacity + 1 commands were enqueued before any was received,
\* one was lost, and the Core has since received the other capacity ones, the
\* newest last.
C10_Witness ==
    /\ sent = CmdCapacity + 1
    /\ evicted = 1
    /\ taken = CmdCapacity
    /\ cmdq = <<>>
    /\ rcvd = sent

\* C12: a slow or stopped consumer never stalls a producer.  While the Core
\* runs, a Controller operation can complete whatever the fill of the command
\* channel, the Core can finish the command it received and can publish the
\* backend's news whatever the fill of the response channel, which nobody
\* reads.
C12_ProducersNeverStall ==
    /\ (~crashed /\ sent < budget) => ENABLED Controller_play
    /\ (~crashed /\ cmdq # <<>>) => ENABLED CoreHandles
    /\ (~crashed /\ cmdq = <<>> /\ bNews < heard.news) => ENABLED (Poll /\ bNews' # bNews)

\* An enqueue completed on a full command channel, and the Core's last command
\* published into a response channel that already held an unread response.
C12_Witness ==
    /\ evicted >= 1
    /\ bNews >= 1
    /\ Len(last.out) = ResCapacity
    /\ resq = last.out

\* C13: Play on a playlist with zero tracks is a no-op: no backend call, no
\* response (so no StateChanged), and playing is left as it was, false when
\* it was false.
C13_EmptyPlayIsNoOp ==
    (last.op = "Play" /\ last.len = 0) =>
        /\ last.calls = <<>>
        /\ last.out = <<>>
        /\ ~last.panic
        /\ playing = last.playing

\* Play was handled on a loaded playlist without tracks.
C13_Witness ==
    last.op = "Play" /\ last.len = 0 /\ last.loaded /\ ~last.playing /\ ~playing

\* C14: Play on an empty playlist that was never loaded produces
\* Error("Playlist is not loaded.") and leaves playing false.
C14_EmptyPlayReportsError ==
    (last.op = "Play" /\ last.len = 0 /\ ~last.loaded) =>
        (Res("Error", 0) \in Range(last.out) /\ ~playing)

\* C15 as amended: Play, Pause, Play in a row on a loaded, non-empty,
\* not-playing playlist leave playing true, false, true and make exactly
\* three backend calls, play, pause, play, none of them a load.
C15_ToggleThreeCalls ==
    toggle.stage = 3 =>
        /\ toggle.plays = <<TRUE, FALSE, TRUE>>
        /\ toggle.calls = <<"play", "pause", "play">>

\* C15 as stated: the three commands make exactly two backend calls.
C15_ToggleTwoCalls ==
    toggle.stage = 3 =>
        /\ toggle.plays = <<TRUE, FALSE, TRUE>>
        /\ Len(toggle.calls) = 2
        /\ \A i \in 1..Len(toggle.calls) : toggle.calls[i] # "load"

\* The three commands were handled in a row.
C15_Witness == toggle.stage = 3 /\ playing

\* The last command was WriteSavedPlaylists and the store returned Err.
LastSaveFailed ==
    /\ last.op = "WriteSavedPlaylists"
    /\ last.calls # <<>>
    /\ ~last.calls[1].ok

\* C18: a failure to persist the saved playlists is surfaced as an Error
\* response and does not affect playback: the Core runs on, and playing,
\* loaded and current_index are as before the command.
C18_SaveFailureSurfaced ==
    LastSaveFailed =>
        /\ ~crashed
        /\ Res("Error", 0) \in Range(last.out)
        /\ playing = last.playing
        /\ loaded = last.loaded
        /\ current_index = last.index

\* C19: the saved playlists round-trip through the Core.  The in-memory
\* collection is the playlists added, in insertion order; a
\* LoadSavedPlaylists after a WriteSavedPlaylists leaves saved_playlists
\* equal to the collection as it was written and emits SavedPlaylists of it.
C19_SavedRoundTrip ==
    /\ saved_playlists = ledger.adds
    /\ (last.op = "LoadSavedPlaylists" /\ ~last.panic) =>
          /\ saved_playlists = ledger.wrote
          /\ last.out = <<Res("SavedPlaylists", Encode(ledger.wrote))>>
    /\ Decode(disk) = ledger.wrote

\* Two different playlists were added, written and loaded back.
C19_Witness ==
    /\ last.op = "LoadSavedPlaylists"
    /\ ledger.written
    /\ Len(saved_playlists) = 2
    /\ saved_playlists[1] # saved_playlists[2]

\* C20: every operation of the Controller enqueues exactly one command, the
\* one corresponding to it, and changes no Core state.
C20_OneCommandPerOperation ==
    [][ControllerOps =>
          /\ sent' = sent + 1
          /\ cmdq' # <<>>
          /\ cmdq'[Len(cmdq')].n = sent'
          /\ (Controller_play => cmdq'[Len(cmdq')].op = "Play")
          /\ (Controller_pause => cmdq'[Len(cmdq')].op = "Pause")
          /\ (Controller_next => cmdq'[Len(cmdq')].op = "Next")
          /\ (Controller_prev => cmdq'[Len(cmdq')].op = "Previous")
          /\ (Controller_volume => cmdq'[Len(cmdq')].op = "Volume")
          /\ (Controller_load => cmdq'[Len(cmdq')].op = "LoadFromFolder")
          /\ (Controller_play_id => cmdq'[Len(cmdq')].op = "PlayId")
          /\ (Controller_get_meta => cmdq'[Len(cmdq')].op = "GetMeta")
          /\ (Controller_get_queue => cmdq'[Len(cmdq')].op = "GetTracks")
          /\ (Controller_open_folder => cmdq'[Len(cmdq')].op = "LoadFolder")
          /\ (Controller_load_saved_playlists =>
                 cmdq'[Len(cmdq')].op = "LoadSavedPlaylists")
          /\ (Controller_save_playlist =>
                 cmdq'[Len(cmdq')].op \in {"AddSavedPlaylist", "WriteSavedPlaylists"})
          /\ UNCHANGED core]_vars

\* C17: once the Controller is dropped the Core's event loop stops: it does
\* not go on iterating over the disconnected, empty command channel and
\* polling the backend.  The iteration that finds the channel disconnected
\* may run to its end; no further one does.
C17_LoopStopsOnClosure == closedPolls <= 1

\* C11: the Core processes commands in receipt order and one at a time: a
\* command is taken from the channel only when the command before it has run
\* through all its steps, it is the oldest command pending, and it was
\* enqueued after every command taken before.
C11_OneAtATime ==
    [][taken' # taken =>
          /\ task.script = <<>>
          /\ ~task.awaiting
          /\ taken' = taken + 1
          /\ rcvd' = Head(cmdq).n
          /\ rcvd' > rcvd
          /\ \A i \in 1..Len(cmdq) : cmdq[i].n >= rcvd'
          /\ cmdq' = Tail(cmdq)]_vars

\* A command is pending, enqueued while the command before it is suspended
\* in a backend call.
C11_Witness ==
    /\ task.awaiting
    /\ cmdq # <<>>
    /\ cmdq[1].n > rcvd
    /\ last.calls # <<>>

LastChangedNothing ==
    /\ playing = last.playing
    /\ loaded = last.loaded
    /\ current_index = last.index
    /\ Len(tracks) = last.len

\* C21: Play on a loaded, non-empty, not-playing playlist emits exactly one
\* of StateChanged(Playing) and Error: StateChanged(Playing) with playing
\* true exactly when backend.play() succeeded, otherwise Error alone with
\* playing left false.
C21_PlayEmitsOneOutcome ==
    (last.op = "Play" /\ last.loaded /\ last.len > 0 /\ ~last.playing) =>
        /\ last.calls # <<>>
        /\ IF last.calls[1].ok
           THEN last.out = <<Res("StateChanged", Playing)>> /\ playing
           ELSE last.out = <<Res("Error", 0)>> /\ ~playing

\* C22: after a LoadFromFolder that succeeded, loaded is true, the live
\* playlist is the folder's, the backend holds its first track, the Core's
\* current track is index 0 whatever it was before, and no response was
\* emitted.
C22_LoadStartsAtFirstTrack ==
    (last.op = "LoadFromFolder" /\ ~last.panic) =>
        /\ loaded
        /\ tracks = from_dir(last.arg)
        /\ tracks # <<>>
        /\ bUri = tracks[1]
        /\ current_index = 0
        /\ last.out = <<>>

\* C27: GetMetadata on a loaded playlist emits exactly one Metadata response,
\* carrying the track at current_index, and GetMetadata and GetTracks are
\* read-only: no backend call, no change of playing, loaded, current_index
\* or the playlist.
C27_GetMetaReadsCurrentTrack ==
    /\ (last.op = "GetMeta" /\ last.loaded) =>
          /\ ~last.panic
          /\ last.index < last.len
          /\ last.out = <<Res("Metadata", tracks[last.index + 1])>>
    /\ (last.op \in {"GetMeta", "GetTracks"}) =>
          /\ last.calls = <<>>
          /\ LastChangedNothing

\* The last command was a Next, Previous or PlayId that ran to its end on a
\* loaded playlist and moved to a track of it: PlayId always does, Next
\* and Previous when they are not at the boundary and the index they reach
\* names a track (an index left behind by a longer playlist may not).
LastNavigated ==
    /\ last.op \in NavOps
    /\ last.loaded
    /\ ~last.panic
    /\ last.op = "PlayId" \/ current_index # last.index
    /\ current_index < Len(tracks)

\* C28: a successful Next, Previous or PlayId on a loaded playlist calls the
\* backend in the order stop, load of the new track, play, set_volume of the
\* stored volume, emits StateChanged(Playing) and ends with playing true,
\* whether the Core was playing before or not.
C28_NavigationCallOrder ==
    LastNavigated =>
        /\ last.calls = <<BCall("stop", 0, TRUE),
                          BCall("load", tracks[current_index + 1], TRUE),
                          BCall("play", 0, TRUE),
                          BCall("set_volume", volume, TRUE)>>
        /\ last.out = <<Res("StateChanged", Playing)>>
        /\ playing

\* A Next moved to the following track while the Core was not playing.
C28_Witness ==
    /\ LastNavigated
    /\ last.op = "Next"
    /\ ~last.playing
    /\ playing
    /\ current_index = last.index + 1

\* C24: Play and Pause are idempotent.  Play handled while playing is true
\* and Pause handled while playing is false make no backend call, emit
\* nothing and change no state; a Pause that emits StateChanged(Paused) found
\* playing true and leaves it false, so between two of them some command
\* set playing to true.
C24_PlayPauseIdempotent ==
    /\ ((last.op = "Play" /\ last.playing) \/ (last.op = "Pause" /\ ~last.playing)) =>
          /\ last.calls = <<>>
          /\ last.out = <<>>
          /\ ~last.panic
          /\ LastChangedNothing
    /\ (last.op = "Pause" /\ Res("StateChanged", Paused) \in Range(last.out)) =>
          (last.playing /\ ~playing)
    /\ (Res("StateChanged", Paused) \in Range(last.out)) => last.op = "Pause"

\* A Pause was handled on a loaded playlist that was not playing.
C24_Witness ==
    /\ last.op = "Pause"
    /\ last.loaded
    /\ last.len > 0
    /\ ~last.playing
    /\ ~playing

\* C25: Position events are edge-triggered.  The tail of an iteration
\* publishes Position(p) exactly when the backend's position p differs from
\* the last published one (self.position, 0 at first): a changed position
\* goes out as the newest response and carries another value than the
\* Position before it, an unchanged one adds at most the monitor's event.
C25_PositionEdgeTriggered ==
    [][Poll =>
          IF position' # position
          THEN resq' # <<>> /\ resq'[Len(resq')] = Res("Position", position')
          ELSE \/ resq' = resq
               \/ \E ev \in MonitorEvents : resq' = RingSend(resq, ev, ResCapacity)]_vars

\* Two Position events were published one after the other.
C25_Witness ==
    /\ Len(resq) = 2
    /\ resq[1].type = "Position"
    /\ resq[2].type = "Position"
    /\ resq[1].arg # resq[2].arg
    /\ position = resq[2].arg

\* C26: every event the backend's monitor returns is republished unchanged,
\* once, as the next response; the tail of an iteration runs when the
\* commands are drained, and sends the monitor's event before the Position.
C26_MonitorRepublished ==
    [][Poll =>
          /\ cmdq = <<>>
          /\ resq' = SendAll(resq,
                 (IF heard'.ev = NoEvent THEN <<>> ELSE <<heard'.ev>>)
                     \o (IF position' # position
                         THEN <<Res("Position", position')>> ELSE <<>>),
                 ResCapacity)]_vars

\* One iteration republished the monitor's event and then published the
\* position, after a command's response had gone out.
C26_Witness ==
    /\ heard.ev # NoEvent
    /\ Len(resq) = 2
    /\ resq[1] = heard.ev
    /\ resq[2] = Res("Position", position)
    /\ last.out # <<>>

\* C29: republishing a monitor event and polling the position change none
\* of playing, loaded, current_index, volume and the playlist; a Play handled
\* while playing is still true, as after a reported end of stream, is ignored.
C29_PollKeepsPlayerState ==
    [][/\ Poll => UNCHANGED <<playing, loaded, current_index, volume, tracks>>
       /\ (HandlePlay /\ playing) =>
             /\ last'.calls = <<>>
             /\ resq' = resq
             /\ UNCHANGED <<playing, loaded, current_index, volume, tracks, bUri>>]_vars

\* The backend reported end of stream while playing was true, and the Play
\* that came next was ignored.
C29_Witness ==
    /\ heard.ev = Res("Eos", 0)
    /\ taken = heard.at + 1
    /\ last.op = "Play"
    /\ last.playing
    /\ last.calls = <<>>
    /\ playing

\* C30: auto-advance.  The Next the frontend enqueues on Eos moves to the
\* following track and plays it when there is one; on the last track it
\* leaves current_index where it is and does not start playback again, so
\* the exchange of Eos and Next comes to an end.
C30_AutoAdvanceSettles ==
    (last.op = "Next" /\ last.loaded /\ ~last.panic) =>
        IF last.index + 1 < last.len
        THEN current_index = last.index + 1 /\ playing
        ELSE /\ current_index = last.index
             /\ \A i \in 1..Len(last.calls) : last.calls[i].f \notin {"stop", "play"}

\* The command at the head of the channel is taken and its precondition does
\* not hold: one of the six that need a loaded playlist on an unloaded one, or
\* a Seek while not playing.
UnmetTaken ==
    /\ ~crashed
    /\ cmdq # <<>>
    /\ taken' = taken + 1
    /\ \/ Head(cmdq).op \in {"Next", "Previous", "PlayId", "Volume", "GetMeta", "GetTracks"}
          /\ ~loaded
       \/ Head(cmdq).op = "Seek" /\ ~playing

\* C23: a command whose precondition does not hold is never fatal and has no
\* effect: it makes no backend call, changes none of playing, loaded,
\* current_index, volume and the playlist, emits no Error, and the loop goes
\* on to the next command.
C23_UnmetPreconditionIgnored ==
    [][UnmetTaken =>
          /\ last'.calls = <<>>
          /\ UNCHANGED <<playing, loaded, current_index, volume, tracks, bUri, bVolume>>
          /\ \A i \in 1..Len(last'.out) : last'.out[i].type # "Error"
          /\ ~crashed'
          /\ CanTake']_vars

\* A Seek, the third command handled, met a loaded playlist that was not
\* playing and was ignored; the loop is still running.
C23_Witness ==
    /\ last.op = "Seek"
    /\ last.loaded
    /\ ~last.playing
    /\ last.calls = <<>>
    /\ taken = 3
    /\ ~crashed

\* C31: metadata follows stream start.  The GetMeta the frontend enqueues on
\* a StreamStart that the backend reported for a loaded track is answered,
\* when it is handled on the loaded playlist, by one Metadata of the track at
\* current_index (the track of the StreamStart or a later one), which then
\* waits in the response channel for the frontend.
C31_MetadataFollowsStreamStart ==
    (last.op = "GetMeta" /\ last.loaded /\ heard.uri # 0 /\ taken > heard.at) =>
        /\ ~last.panic
        /\ last.index < last.len
        /\ last.out = <<Res("Metadata", tracks[last.index + 1])>>

====
